---- MODULE Spec2Model ----
(***************************************************************************)
(* Model of the link-request lifecycle of Discord-pearlbot (src/main.js).  *)
(*                                                                         *)
(* The bot is one Node.js process: every handler runs synchronously until  *)
(* it reaches an `await`, where other handlers may run.  Each action below *)
(* is one such synchronous block of a handler, from one await (or the      *)
(* arrival of the event) to the next.  The outcome of an awaited call to   *)
(* the chat platform (found / not found, sent / failed) is chosen by the   *)
(* environment.  interaction.reply() is taken to deliver its content.      *)
(*                                                                         *)
(* Specifications:                                                         *)
(*   Spec      the interaction handlers of a process whose startup is over *)
(*   BootSpec  the ClientReady handler, and an interaction in the meantime  *)
(*   LifeSpec  the handlers, SIGINT, the exit and the next start           *)
(*   LoadSpec  readJson on the contents a backing file may have            *)
(***************************************************************************)
EXTENDS Integers, Sequences, FiniteSets, TLC

VARIABLES
    pending,        \* main.js:66   in-memory array of request records
    accounts,       \* main.js:67   in-memory map targetId -> entry
    pendingFile,    \* pending.json as last written
    accountsFile,   \* accounts.json as last written
    adminChannelId, \* main.js:73   ADMIN_CHANNEL_ID (NULL when not configured)
    adminRoleIds,   \* main.js:79   ADMIN_ROLE_IDS
    now,            \* the value Date.now() returns
    messages,       \* the messages of the AdminLogs channel, by message id
    handlers,       \* the InteractionCreate handler invocations, by arrival
    replies,        \* what interaction.reply() delivered, per interaction
    writeFailed,    \* main.js:62   actions.log holds a "Failed to write" line
    proc,           \* the process: running, stopping (SIGINT taken), exited
    ready,          \* main.js:124  the ClientReady handler invocation
    gone,           \* the ids of the messages deleted from the channel
    unreadable,     \* the backing files whose bytes do not decode
    load            \* main.js:49   a call of readJson and what it returned

\* what the interaction handlers never touch
rest == <<proc, ready, gone, load>>

vars == <<pending, accounts, pendingFile, accountsFile, adminChannelId,
          adminRoleIds, now, messages, handlers, replies, writeFailed,
          proc, ready, gone, unreadable, load>>

----------------------------------------------------------------------------
(* Bounds of the model *)

\* number of interactions (slash commands and button clicks) that arrive
MaxInteractions == 2
\* number of requests an earlier run of the bot left in pending.json
MaxStored == 2
\* the clock shows 1 .. MaxClock
MaxClock == 1
\* Math.floor(Math.random()*10000) is drawn from 0 .. MaxRand-1
MaxRand == 2

NULL == "null"

Interactions == 1..MaxInteractions

----------------------------------------------------------------------------
(* The people and what the chat platform knows about them *)

\* who submits, and the accounts a submission may name
Requesters == {"u1"}
Targets == {"u1", "u2"}
\* who clicks the buttons
\* a1 holds role r1 and is an administrator, a2 holds role r1 and has no
\* administrative permission, a3 holds role r2 and may manage the guild
Resolvers == {"a1", "a2", "a3"}

RolesOf(u) ==
    CASE u = "a1" -> {"r1"}
      [] u = "a2" -> {"r1"}
      [] u = "a3" -> {"r2"}
      [] OTHER -> {}

PermissionsOf(u) ==
    CASE u = "a1" -> {"Administrator"}
      [] u = "a3" -> {"ManageGuild"}
      [] OTHER -> {}

\* `${user.username}#${user.discriminator}`
TagOf(u) == <<u, "#0">>

\* the member object of a user: its role cache and its permissions
MemberOf(u) ==
    [present |-> TRUE, roles |-> RolesOf(u), permissions |-> PermissionsOf(u)]
\* interaction.member when it is null, and a member fetch that failed
NoMember == [present |-> FALSE, roles |-> {}, permissions |-> {}]

----------------------------------------------------------------------------
(* Strings: the ign option is a sequence of characters *)

Whitespace == {" "}

RECURSIVE TrimStart(_)
TrimStart(s) ==
    IF s # <<>> /\ Head(s) \in Whitespace THEN TrimStart(Tail(s)) ELSE s

RECURSIVE TrimEnd(_)
TrimEnd(s) ==
    IF s # <<>> /\ s[Len(s)] \in Whitespace
    THEN TrimEnd(SubSeq(s, 1, Len(s) - 1))
    ELSE s

\* String.prototype.trim
Trim(s) == TrimEnd(TrimStart(s))

\* the values of the ign option that arrive
RawIgns == {<<>>, <<" ">>, <<"N">>, <<" ", "N">>}

----------------------------------------------------------------------------
(* Values *)

\* messageId: null, and a message variable that holds nothing
NoMessage == 0
\* resolvedAt of a record that has none
NoTime == 0
\* an entry of `accounts` that is undefined
NoEntry == [username |-> NULL, id |-> NULL, igns |-> <<>>]

\* `${Date.now()}-${Math.floor(Math.random()*10000)}`
ReqId(t, r) == <<t, r>>
\* the request id on the buttons of a message whose request the store
\* does not hold
StaleId == <<0, 0>>

\* pending.find(p => p.id === reqId): the index of the first match, 0 if none
FindReq(reqId) ==
    IF \E k \in 1..Len(pending) : pending[k].id = reqId
    THEN CHOOSE k \in 1..Len(pending) :
            /\ pending[k].id = reqId
            /\ \A j \in 1..(k - 1) : pending[j].id # reqId
    ELSE 0

\* entry.igns.includes(ign)
Includes(igns, ign) == \E k \in 1..Len(igns) : igns[k] = ign

\* the request record built by the /link command
NewReq(reqId, user, target, ign, t) ==
    [ id |-> reqId,
      requesterId |-> user,
      requesterTag |-> TagOf(user),
      targetId |-> target,
      targetTag |-> TagOf(target),
      ign |-> ign,
      status |-> "pending",
      createdAt |-> t,
      messageId |-> NoMessage,
      resolvedBy |-> NULL,
      resolvedAt |-> NoTime ]

\* createEmbedForReq(req, status): what the artifact shows
createEmbedForReq(req, status) ==
    [ reqId |-> req.id,
      status |-> status,
      decidedBy |-> IF status \in {"approved", "rejected"} /\ req.resolvedBy # NULL
                    THEN req.resolvedBy
                    ELSE NULL ]

\* no embed built yet
NoEmbed == [reqId |-> StaleId, status |-> NULL, decidedBy |-> NULL]

\* the message adminChannel.send creates: the embed and the two enabled buttons
NewMessage(embed) == [embed |-> embed, disabled |-> FALSE]

writeJson_Skipped(file, data, ok) == file

\* writeJson: the file holds the data, or keeps its content when the write
\* throws (the error is logged and swallowed)
writeJson(file, data, ok) == IF ok THEN data ELSE file

\* a write that succeeds replaces the bytes of the file
Rewritten(name, ok) == IF ok THEN unreadable \ {name} ELSE unreadable

\* the values JSON.parse returns, by their type; the falsy ones are null,
\* false, 0 and ""
JsonScalars == {"null", "false", "zero", "emptyString", "true", "number", "string"}
Json(type, val) == [type |-> type, val |-> val]
\* the default values of 66 and 67: [] and {}
EmptyArray == Json("array", <<>>)
EmptyObject == Json("object", [t \in Targets |-> NoEntry])
Truthy(v) == v.type \notin {"null", "false", "zero", "emptyString"}

\* the text of a file: empty, the JSON text of a value, or anything else
EmptyText == [kind |-> "empty", of |-> Json("null", <<>>)]
Garbage == [kind |-> "garbage", of |-> Json("null", <<>>)]
\* JSON.stringify(data, null, 2)
Stringify(v) == [kind |-> "json", of |-> v]
\* whether JSON.parse(text) returns, and what; it throws on any other text
Parses(text) == text.kind = "json"
Parse(text) == text.of

\* a file that does not exist, and a file that holds a text
Absent == [exists |-> FALSE, text |-> EmptyText]
FileWith(text) == [exists |-> TRUE, text |-> text]

readJson_Default(content, defaultValue) == defaultValue

\* readJson(filePath, defaultValue), by the content of the file at filePath
readJson(content, defaultValue) ==
    IF ~content.exists THEN defaultValue
    ELSE LET text == IF content.text = EmptyText THEN Stringify(Json("null", <<>>))
                     ELSE content.text
         IN  IF ~Parses(text) THEN defaultValue
             ELSE IF Truthy(Parse(text)) THEN Parse(text)
             ELSE defaultValue

\* pending.json and accounts.json as a start of the process finds them
PendingContent ==
    IF "pending" \in unreadable THEN FileWith(Garbage)
    ELSE FileWith(Stringify(Json("array", pendingFile)))
AccountsContent ==
    IF "accounts" \in unreadable THEN FileWith(Garbage)
    ELSE FileWith(Stringify(Json("object", accountsFile)))

HasAdmin_PermissionsCount(member) ==
    member.present
    /\ \/ (member.roles \cap adminRoleIds) # {}
       \/ "Administrator" \in member.permissions
       \/ "ManageGuild" \in member.permissions

\* hasAdmin, computed from the member (NULL when unavailable)
HasAdmin(member) ==
    IF adminRoleIds # {}
    THEN member.present /\ (member.roles \cap adminRoleIds) # {}
    ELSE member.present
         /\ ("Administrator" \in member.permissions
             \/ "ManageGuild" \in member.permissions)

----------------------------------------------------------------------------
(* Handler invocations *)

\* an interaction that has not arrived yet
IdleHandler ==
    [ pc |-> "idle", kind |-> NULL, user |-> NULL, action |-> NULL,
      req |-> 0, member |-> NoMember, hasAdmin |-> FALSE, msg |-> NoMessage,
      embed |-> NoEmbed, content |-> NULL ]

\* a handler that has returned: its locals are gone, the interaction remains
Returned(h) ==
    [ IdleHandler EXCEPT !.pc = "done", !.kind = h.kind, !.req = h.req ]

\* interactions arrive in the order of their numbers
MayArrive(i) ==
    /\ proc = "running"
    /\ handlers[i].pc = "idle"
    /\ \A j \in 1..(i - 1) : handlers[j].pc # "idle"

\* the handler calls interaction.reply(content) and awaits it
CallReply(h, content) == [h EXCEPT !.pc = "reply", !.content = content]

\* the ClientReady handler when the event is emitted: its position, whether
\* it got a text channel, the requests the loop of 146 has yet to visit (by
\* their index in `pending`), the variable `message` of 147, the requests
\* it logged as having their message (162) and as restored (160), and
\* whether it ended in the catch block of 166
ReadyStart ==
    [ pc |-> "r_register", channel |-> FALSE, todo |-> <<>>,
      message |-> NoMessage, kept |-> {}, restored |-> {}, failed |-> FALSE ]
\* the ClientReady handler of a process whose startup is over
ReadyOver == [ReadyStart EXCEPT !.pc = "done"]

\* no call of readJson is followed
NoLoad == [pc |-> "none", kind |-> NULL, content |-> Absent, result |-> EmptyArray]

\* pending.json as an earlier run left it: n requests, the k-th submitted
\* at time 0 with random part k by u1 and not yet resolved; rendered as
\* message k when that run had the channel configured, not rendered when it
\* had not.  The first is for u1 and N, the others for any target and ign.
StoredIgns == {<<"N">>, <<"S">>}

StoredReq(k, target, ign, rendered) ==
    [NewReq(ReqId(0, k), "u1", target, ign, 0) EXCEPT
        !.messageId = IF rendered THEN k ELSE NoMessage]

StoredFiles(rendered) ==
    UNION {{[k \in 1..n |-> StoredReq(k, f[k][1], f[k][2], rendered)] :
                f \in {g \in [1..n -> Targets \X StoredIgns] :
                            n >= 1 => g[1] = <<"u1", <<"N">>>>}} :
            n \in 0..MaxStored}

\* the process starts: both collections are loaded from their files (66-67)
Init ==
    /\ adminChannelId \in {NULL, "AdminLogs"}
    /\ adminRoleIds \in {{}, {"r1"}}
    /\ pendingFile \in StoredFiles(adminChannelId # NULL)
    /\ accountsFile = [t \in Targets |-> NoEntry]
    /\ pending = pendingFile
    /\ accounts = accountsFile
    /\ now = 1
    /\ messages = IF adminChannelId = NULL THEN <<>>
                  ELSE [k \in 1..Len(pendingFile) |->
                            NewMessage(createEmbedForReq(pendingFile[k], "pending"))]
    /\ handlers = [i \in Interactions |-> IdleHandler]
    /\ replies = [i \in Interactions |-> NULL]
    /\ writeFailed = FALSE
    /\ proc = "running"
    /\ ready = ReadyOver
    /\ gone = {}
    /\ unreadable = {}
    /\ load = NoLoad

\* Date.now(): the clock is seen only when it is read; it shows the time of
\* the previous reading or a later one
ClockReadings == now..MaxClock

----------------------------------------------------------------------------
(* The /link command: main.js 174-216 *)

\* 174-198: build the request, push it, save, and go for the channel
Command_Start(i) ==
    /\ MayArrive(i)
    /\ \E user \in Requesters, target \in Targets, raw \in RawIgns,
          t \in ClockReadings, rand \in 0..(MaxRand - 1), ok \in BOOLEAN :
        LET ign == Trim(raw)
            req == NewReq(ReqId(t, rand), user, target, ign, t)
            h   == [IdleHandler EXCEPT !.kind = "command", !.user = user,
                                       !.req = Len(pending) + 1]
        IN  /\ pending' = Append(pending, req)
            /\ pendingFile' = writeJson(pendingFile, pending', ok)
            /\ unreadable' = Rewritten("pending", ok)
            /\ writeFailed' = (writeFailed \/ ~ok)
            /\ now' = t
            /\ handlers' = [handlers EXCEPT ![i] =
                    IF adminChannelId = NULL
                    THEN CallReply(h, "NotConfigured")
                    ELSE [h EXCEPT !.pc = "s_fetchChannel"]]
    /\ UNCHANGED <<accounts, accountsFile, adminChannelId, adminRoleIds,
                   messages, replies, rest>>

\* 198-211: the channel fetch returns; send the artifact or report
Command_FetchChannel(i) ==
    /\ handlers[i].pc = "s_fetchChannel"
    /\ \E textChannel \in BOOLEAN :
        LET h == handlers[i]
        IN  handlers' = [handlers EXCEPT ![i] =
                IF ~textChannel
                THEN CallReply(h, "ChannelNotFound")
                ELSE [h EXCEPT !.pc = "s_send",
                               !.embed = createEmbedForReq(pending[h.req], "pending")]]
    /\ UNCHANGED <<pending, accounts, pendingFile, accountsFile, adminChannelId,
                   adminRoleIds, now, messages, replies, writeFailed, unreadable,
                   rest>>

SendThrew_Silent(h) == Returned(h)

\* 307-311: the catch block of the handler, entered before any reply
SendThrew(h) == CallReply(h, "Error")

\* 211-216: the send returns; record the message id and save.
\* A send that throws lands in the catch block, 307-311.
Command_Send(i) ==
    /\ handlers[i].pc = "s_send"
    /\ \E sent \in BOOLEAN, ok \in BOOLEAN :
        LET h == handlers[i]
        IN  IF sent
            THEN /\ messages' = Append(messages, NewMessage(h.embed))
                 /\ pending' = [pending EXCEPT ![h.req].messageId = Len(messages')]
                 /\ pendingFile' = writeJson(pendingFile, pending', ok)
                 /\ unreadable' = Rewritten("pending", ok)
                 /\ writeFailed' = (writeFailed \/ ~ok)
                 /\ handlers' = [handlers EXCEPT ![i] = CallReply(h, "Submitted")]
            ELSE /\ handlers' = [handlers EXCEPT ![i] = SendThrew(h)]
                 /\ UNCHANGED <<messages, pending, pendingFile, writeFailed,
                                unreadable>>
    /\ UNCHANGED <<accounts, accountsFile, adminChannelId, adminRoleIds, now,
                   replies, rest>>

\* the awaited interaction.reply delivers its content and the handler returns
Reply(i) ==
    /\ handlers[i].pc = "reply"
    /\ replies' = [replies EXCEPT ![i] = handlers[i].content]
    /\ handlers' = [handlers EXCEPT ![i] = Returned(handlers[i])]
    /\ UNCHANGED <<pending, accounts, pendingFile, accountsFile, adminChannelId,
                   adminRoleIds, now, messages, writeFailed, unreadable, rest>>

----------------------------------------------------------------------------
(* The approve / reject buttons: main.js 219-306 *)

\* the request ids on the buttons that can be clicked: those of the messages
\* whose buttons are enabled, and that of a message left from the time of a
\* store that is gone
ClickableIds ==
    {messages[m].embed.reqId : m \in {n \in 1..Len(messages) : ~messages[n].disabled}}
    \cup {StaleId}

AlreadyResolved_Never(req) == FALSE

\* 229: req.status !== 'pending'
AlreadyResolved(req) == req.status # "pending"

\* 230: `This request was already ${req.status}.`
AlreadyContent(status) ==
    IF status = "approved" THEN "AlreadyApproved" ELSE "AlreadyRejected"

\* 242-258: compute hasAdmin; refuse, or go for the channel (260)
CheckAdmin_NoRefusal(h, member) ==
    [h EXCEPT !.hasAdmin = HasAdmin(member), !.pc = "b_fetchChannel"]

CheckAdmin(h, member) ==
    IF ~HasAdmin(member)
    THEN CallReply(h, "NoPermission")
    ELSE [h EXCEPT !.hasAdmin = TRUE, !.pc = "b_fetchChannel"]

Button_Start_AdminFirst(i) ==
    /\ MayArrive(i)
    /\ \E user \in Resolvers, action \in {"accept", "reject"},
          reqId \in ClickableIds, member \in {"member", "fetch", "none"} :
        LET k == FindReq(reqId)
            h == [IdleHandler EXCEPT !.kind = "button", !.user = user,
                                     !.action = action, !.req = k]
            m == IF member = "member" THEN MemberOf(user) ELSE NoMember
        IN  handlers' = [handlers EXCEPT ![i] =
                IF member # "fetch" /\ ~HasAdmin(m)
                THEN CallReply(h, "NoPermission")
                ELSE IF k = 0
                THEN CallReply(h, "NotFound")
                ELSE IF AlreadyResolved(pending[k])
                THEN CallReply(h, AlreadyContent(pending[k].status))
                ELSE IF member = "fetch"
                THEN [h EXCEPT !.pc = "b_fetchMember"]
                ELSE CheckAdmin([h EXCEPT !.member = m], m)]
    /\ UNCHANGED <<pending, accounts, pendingFile, accountsFile, adminChannelId,
                   adminRoleIds, now, messages, replies, writeFailed, unreadable,
                   rest>>

\* 219-240: look the request up, check its status, get the member
Button_Start(i) ==
    /\ MayArrive(i)
    /\ \E user \in Resolvers, action \in {"accept", "reject"},
          reqId \in ClickableIds, member \in {"member", "fetch", "none"} :
        LET k == FindReq(reqId)
            h == [IdleHandler EXCEPT !.kind = "button", !.user = user,
                                     !.action = action, !.req = k]
            m == IF member = "member" THEN MemberOf(user) ELSE NoMember
        IN  handlers' = [handlers EXCEPT ![i] =
                IF k = 0
                THEN CallReply(h, "NotFound")
                ELSE IF AlreadyResolved(pending[k])
                THEN CallReply(h, AlreadyContent(pending[k].status))
                ELSE IF member = "fetch"
                THEN [h EXCEPT !.pc = "b_fetchMember"]
                ELSE CheckAdmin([h EXCEPT !.member = m], m)]
    /\ UNCHANGED <<pending, accounts, pendingFile, accountsFile, adminChannelId,
                   adminRoleIds, now, messages, replies, writeFailed, unreadable,
                   rest>>

\* 239: the member fetch returns, or throws and leaves member unset
Button_FetchMember(i) ==
    /\ handlers[i].pc = "b_fetchMember"
    /\ \E fetched \in BOOLEAN :
        LET h == handlers[i]
            m == IF fetched THEN MemberOf(h.user) ELSE NoMember
        IN  handlers' = [handlers EXCEPT ![i] =
                CheckAdmin([h EXCEPT !.member = m], m)]
    /\ UNCHANGED <<pending, accounts, pendingFile, accountsFile, adminChannelId,
                   adminRoleIds, now, messages, replies, writeFailed, unreadable,
                   rest>>

PushIgn_Always(igns, ign) == Append(igns, ign)

\* 270: if (!entry.igns.includes(req.ign)) entry.igns.push(req.ign)
PushIgn(igns, ign) == IF Includes(igns, ign) THEN igns ELSE Append(igns, ign)

\* 268: req.targetId || req.requesterId
TargetId(req) == IF req.targetId # NULL THEN req.targetId ELSE req.requesterId

StoreEntry_ByRequester(acc, req, entry) == [acc EXCEPT ![req.requesterId] = entry]

\* 271: accounts[targetId] = entry
StoreEntry(acc, req, entry) == [acc EXCEPT ![TargetId(req)] = entry]

ApproveAccounts_Overwrite(req) ==
    StoreEntry(accounts, req,
        [username |-> req.targetTag, id |-> TargetId(req), igns |-> <<req.ign>>])

\* 268-271: the account collection after the approval of req
ApproveAccounts(req) ==
    LET entry == IF accounts[TargetId(req)] # NoEntry
                 THEN accounts[TargetId(req)]
                 ELSE [username |-> req.targetTag, id |-> TargetId(req),
                       igns |-> <<>>]
    IN  StoreEntry(accounts, req,
                   [entry EXCEPT !.igns = PushIgn(entry.igns, req.ign)])

DecideAccounts_Both(req, action) == ApproveAccounts(req)

\* 267, 289: only the accept branch touches the account collection
DecideAccounts(req, action) ==
    IF action = "accept" THEN ApproveAccounts(req) ELSE accounts

Resolve_StatusOnly(k, action, user, t) ==
    [pending EXCEPT ![k].status = IF action = "accept" THEN "approved" ELSE "rejected"]

\* 274-276, 290-292
Resolve(k, action, user, t) ==
    [pending EXCEPT ![k].status = IF action = "accept" THEN "approved" ELSE "rejected",
                    ![k].resolvedBy = user,
                    ![k].resolvedAt = t]

\* 288, 304: the acknowledgment of the decision
Acknowledge(h) ==
    CallReply(h, IF h.action = "accept" THEN "Approved" ELSE "Rejected")

EditThrew_Propagates(h) == CallReply(h, "Error")

\* 286, 302: the catch of the inner try: a warning, and on to the reply
EditThrew(h) == Acknowledge(h)

\* 260-282 / 289-298: the channel fetch returns (null when it failed); apply
\* the decision, save, and go for the message
Button_FetchChannel(i) ==
    /\ handlers[i].pc = "b_fetchChannel"
    /\ \E channel \in BOOLEAN, t \in ClockReadings, okA \in BOOLEAN,
          okP \in BOOLEAN :
        LET h == handlers[i]
            req == pending[h.req]
            status == IF h.action = "accept" THEN "approved" ELSE "rejected"
        IN  /\ channel => adminChannelId # NULL
            /\ (h.action # "accept") => okA
            /\ accounts' = DecideAccounts(req, h.action)
            /\ accountsFile' = IF h.action = "accept"
                               THEN writeJson(accountsFile, accounts', okA)
                               ELSE accountsFile
            /\ pending' = Resolve(h.req, h.action, h.user, t)
            /\ now' = t
            /\ pendingFile' = writeJson(pendingFile, pending', okP)
            /\ unreadable' = (IF h.action = "accept"
                              THEN Rewritten("accounts", okA)
                              ELSE unreadable) \ (IF okP THEN {"pending"} ELSE {})
            /\ writeFailed' = (writeFailed \/ ~okA \/ ~okP)
            /\ handlers' = [handlers EXCEPT ![i] =
                    IF channel
                    THEN [h EXCEPT !.pc = "b_fetchMsg", !.msg = req.messageId]
                    ELSE Acknowledge(h)]
    /\ UNCHANGED <<adminChannelId, adminRoleIds, messages, replies, rest>>

\* 282-284 / 298-300: the message fetch returns (null when it failed); build
\* the embed from the request as it is now, and edit the message
Button_FetchMsg(i) ==
    /\ handlers[i].pc = "b_fetchMsg"
    /\ \E found \in BOOLEAN :
        LET h == handlers[i]
            status == IF h.action = "accept" THEN "approved" ELSE "rejected"
        IN  /\ found => (h.msg # NoMessage /\ h.msg \notin gone)
            /\ handlers' = [handlers EXCEPT ![i] =
                    IF found
                    THEN [h EXCEPT !.pc = "b_edit",
                                   !.embed = createEmbedForReq(pending[h.req], status)]
                    ELSE Acknowledge(h)]
    /\ UNCHANGED <<pending, accounts, pendingFile, accountsFile, adminChannelId,
                   adminRoleIds, now, messages, replies, writeFailed, unreadable,
                   rest>>

\* 284-288 / 300-304: the edit returns, or throws and is logged
Button_Edit(i) ==
    /\ handlers[i].pc = "b_edit"
    /\ \E edited \in BOOLEAN :
        LET h == handlers[i]
        IN  /\ messages' = IF edited
                           THEN [messages EXCEPT ![h.msg] =
                                    [embed |-> h.embed, disabled |-> TRUE]]
                           ELSE messages
            /\ handlers' = [handlers EXCEPT ![i] =
                    IF edited THEN Acknowledge(h) ELSE EditThrew(h)]
    /\ UNCHANGED <<pending, accounts, pendingFile, accountsFile, adminChannelId,
                   adminRoleIds, now, replies, writeFailed, unreadable, rest>>

----------------------------------------------------------------------------
(* The ClientReady handler: main.js 124-170 *)

\* 146: pending.filter(p => p.status === 'pending'), by index
StillPending(p) ==
    SelectSeq([k \in 1..Len(p) |-> k], LAMBDA k : p[k].status = "pending")

Missing_Always(found) == TRUE

\* 151: !message
Missing(found) == ~found

\* 146-150: the loop takes the next request, with `message` undefined, and
\* fetches its message when it has a message id; with no request left the
\* handler returns
Iterate(r, p) ==
    IF r.todo = <<>> THEN [r EXCEPT !.pc = "done", !.message = NoMessage]
    ELSE IF p[Head(r.todo)].messageId # NoMessage
    THEN [r EXCEPT !.pc = "r_fetchMsg", !.message = NoMessage]
    ELSE [r EXCEPT !.pc = "r_send", !.message = NoMessage]

\* 125-140: the command is registered (whether that throws or not), and
\* without ADMIN_CHANNEL_ID the handler returns
Ready_Register ==
    /\ proc = "running"
    /\ ready.pc = "r_register"
    /\ ready' = [ready EXCEPT !.pc = IF adminChannelId = NULL THEN "done"
                                     ELSE "r_fetchChannel"]
    /\ UNCHANGED <<pending, accounts, pendingFile, accountsFile, adminChannelId,
                   adminRoleIds, now, messages, handlers, replies, writeFailed,
                   proc, gone, unreadable, load>>

\* 142-148: the channel fetch returns a text channel, returns something
\* else, or throws (166)
Ready_FetchChannel ==
    /\ proc = "running"
    /\ ready.pc = "r_fetchChannel"
    /\ \E outcome \in {"text", "other", "throws"} :
        ready' = CASE outcome = "text" ->
                        Iterate([ready EXCEPT !.channel = TRUE,
                                              !.todo = StillPending(pending)],
                                pending)
                   [] outcome = "other" -> [ready EXCEPT !.pc = "done"]
                   [] outcome = "throws" ->
                        [ready EXCEPT !.pc = "done", !.failed = TRUE]
    /\ UNCHANGED <<pending, accounts, pendingFile, accountsFile, adminChannelId,
                   adminRoleIds, now, messages, handlers, replies, writeFailed,
                   proc, gone, unreadable, load>>

\* 149-151, 162: the message fetch returns the message, or throws and leaves
\* `message` undefined
Ready_FetchMsg ==
    /\ proc = "running"
    /\ ready.pc = "r_fetchMsg"
    /\ \E found \in BOOLEAN :
        LET k == Head(ready.todo)
            message == IF found THEN pending[k].messageId ELSE NoMessage
        IN  /\ found => pending[k].messageId \notin gone
            /\ ready' = IF Missing(found)
                        THEN [ready EXCEPT !.pc = "r_send", !.message = message]
                        ELSE Iterate([ready EXCEPT !.todo = Tail(ready.todo),
                                                   !.kept = @ \cup {k}],
                                     pending)
    /\ UNCHANGED <<pending, accounts, pendingFile, accountsFile, adminChannelId,
                   adminRoleIds, now, messages, handlers, replies, writeFailed,
                   proc, gone, unreadable, load>>

\* 152-160: the send returns: record the message id, save, and go on with
\* the next request; a send that throws ends the handler in the catch of 166
Ready_Send ==
    /\ proc = "running"
    /\ ready.pc = "r_send"
    /\ \E sent \in BOOLEAN, ok \in BOOLEAN :
        LET k == Head(ready.todo)
        IN  IF sent
            THEN /\ messages' = Append(messages,
                        NewMessage(createEmbedForReq(pending[k], "pending")))
                 /\ pending' = [pending EXCEPT ![k].messageId = Len(messages')]
                 /\ pendingFile' = writeJson(pendingFile, pending', ok)
                 /\ unreadable' = Rewritten("pending", ok)
                 /\ writeFailed' = (writeFailed \/ ~ok)
                 /\ ready' = Iterate([ready EXCEPT !.todo = Tail(ready.todo),
                                                   !.restored = @ \cup {k}],
                                     pending')
            ELSE /\ ready' = [ready EXCEPT !.pc = "done", !.failed = TRUE]
                 /\ UNCHANGED <<messages, pending, pendingFile, writeFailed,
                                unreadable>>
    /\ UNCHANGED <<accounts, accountsFile, adminChannelId, adminRoleIds, now,
                   handlers, replies, proc, gone, load>>

\* the interactions that arrive while the ClientReady handler runs
MaxEarly == 1
Early == 1..MaxEarly

\* what an earlier run left of a request: not rendered, rendered with its
\* message still there, rendered with its message deleted since, approved
Shapes == {"new", "live", "deleted", "approved"}

BootReq(k, shape, m) ==
    [StoredReq(k, "u1", <<"N">>, FALSE) EXCEPT
        !.messageId = IF shape = "new" THEN NoMessage ELSE m,
        !.status = IF shape = "approved" THEN "approved" ELSE "pending",
        !.resolvedBy = IF shape = "approved" THEN "a1" ELSE NULL,
        !.resolvedAt = IF shape = "approved" THEN 1 ELSE NoTime]

\* the message of a stored request
BootMessage(req) ==
    [embed |-> createEmbedForReq(req, req.status),
     disabled |-> req.status # "pending"]

\* the process starts (66-67) and ClientReady is emitted
BootInit ==
    \E n \in 0..MaxStored : \E f \in [1..n -> Shapes] :
        LET Rendered == {k \in 1..n : f[k] # "new"}
            MsgId(k) == Cardinality({j \in Rendered : j <= k})
            ReqOf(m) == CHOOSE k \in Rendered : MsgId(k) = m
        IN  /\ adminChannelId \in {NULL, "AdminLogs"}
            /\ adminRoleIds = {}
            /\ pendingFile = [k \in 1..n |-> BootReq(k, f[k], MsgId(k))]
            /\ accountsFile = [t \in Targets |-> NoEntry]
            /\ unreadable = {}
            /\ pending = readJson(PendingContent, EmptyArray).val
            /\ accounts = readJson(AccountsContent, EmptyObject).val
            /\ now = 1
            /\ messages = [m \in 1..Cardinality(Rendered) |->
                                BootMessage(pendingFile[ReqOf(m)])]
            /\ gone = {MsgId(k) : k \in {j \in 1..n : f[j] = "deleted"}}
            /\ handlers = [i \in Interactions |-> IdleHandler]
            /\ replies = [i \in Interactions |-> NULL]
            /\ writeFailed = FALSE
            /\ proc = "running"
            /\ ready = ReadyStart
            /\ load = NoLoad

BootNext ==
    \/ Ready_Register
    \/ Ready_FetchChannel
    \/ Ready_FetchMsg
    \/ Ready_Send
    \/ \E i \in Early : Command_Start(i)
    \/ \E i \in Early : Command_FetchChannel(i)
    \/ \E i \in Early : Command_Send(i)
    \/ \E i \in Early : Button_Start(i)
    \/ \E i \in Early : Button_FetchMember(i)
    \/ \E i \in Early : Button_FetchChannel(i)
    \/ \E i \in Early : Button_FetchMsg(i)
    \/ \E i \in Early : Button_Edit(i)
    \/ \E i \in Early : Reply(i)

BootSpec == BootInit /\ [][BootNext]_vars

----------------------------------------------------------------------------
(* The end of the process and its next start: main.js 315-319, 66-67 *)

\* 315-317: SIGINT is taken: a log line, and client.destroy() is awaited;
\* the gateway is closed and no event arrives any more
Sigint ==
    /\ proc = "running"
    /\ proc' = "stopping"
    /\ UNCHANGED <<pending, accounts, pendingFile, accountsFile, adminChannelId,
                   adminRoleIds, now, messages, handlers, replies, writeFailed,
                   ready, gone, unreadable, load>>

\* a handler that process.exit found at an await: it never runs again
Cut(h) == [Returned(h) EXCEPT !.pc = "cut"]

\* 317-318: destroy() settles and process.exit(0) ends the process, with
\* whatever the handlers were awaiting; the memory of the process is gone
Exit ==
    /\ proc = "stopping"
    /\ proc' = "exited"
    /\ handlers' = [i \in Interactions |->
                        IF handlers[i].pc \in {"idle", "done", "cut"}
                        THEN handlers[i]
                        ELSE Cut(handlers[i])]
    /\ pending' = <<>>
    /\ accounts' = [t \in Targets |-> NoEntry]
    /\ UNCHANGED <<pendingFile, accountsFile, adminChannelId, adminRoleIds, now,
                   messages, replies, writeFailed, ready, gone, unreadable, load>>

\* while the process is down the bytes of pending.json are damaged
Corrupt ==
    /\ proc = "exited"
    /\ \E name \in {"pending"} \ unreadable :
            unreadable' = unreadable \cup {name}
    /\ UNCHANGED <<pending, accounts, pendingFile, accountsFile, adminChannelId,
                   adminRoleIds, now, messages, handlers, replies, writeFailed,
                   proc, ready, gone, load>>

\* 66-67: the process is started again and loads both collections
Start ==
    /\ proc = "exited"
    /\ proc' = "running"
    /\ pending' = readJson(PendingContent, EmptyArray).val
    /\ accounts' = readJson(AccountsContent, EmptyObject).val
    /\ UNCHANGED <<pendingFile, accountsFile, adminChannelId, adminRoleIds, now,
                   messages, handlers, replies, writeFailed, ready, gone,
                   unreadable, load>>

LifeNext ==
    \/ \E i \in Interactions : Command_Start(i)
    \/ \E i \in Interactions : Command_FetchChannel(i)
    \/ \E i \in Interactions : Command_Send(i)
    \/ \E i \in Interactions : Button_Start(i)
    \/ \E i \in Interactions : Button_FetchMember(i)
    \/ \E i \in Interactions : Button_FetchChannel(i)
    \/ \E i \in Interactions : Button_FetchMsg(i)
    \/ \E i \in Interactions : Button_Edit(i)
    \/ \E i \in Interactions : Reply(i)
    \/ Sigint
    \/ Exit
    \/ Corrupt
    \/ Start

\* a process whose startup is over, with the channel configured and no
\* admin roles
LifeInit == Init /\ adminChannelId = "AdminLogs" /\ adminRoleIds = {}

LifeSpec == LifeInit /\ [][LifeNext]_vars

----------------------------------------------------------------------------
(* readJson on its own: main.js 49-57, 66-67 *)

\* what writeJson has left in pending.json and in accounts.json
SavedRequests == StoredFiles(TRUE) \cup StoredFiles(FALSE)
\* an entry of accounts.json: none, or the igns approved for the account
SavedIgns == <<<<<<"N">>>>, <<<<"N">>, <<"S">>>>>>
SavedEntry(t, c) ==
    IF c = 0 THEN NoEntry
    ELSE [username |-> TagOf(t), id |-> t, igns |-> SavedIgns[c]]
\* accounts.json with entry c[t] for account t
SavedAccounts(c) == [t \in Targets |-> SavedEntry(t, c[t])]

\* the contents a backing file may have: none, the empty text, a text that
\* is not JSON, and the JSON text of a scalar, of an array, of an object
PlainContents ==
    {Absent, FileWith(EmptyText), FileWith(Garbage)}
    \cup {FileWith(Stringify(Json(type, <<>>))) : type \in JsonScalars}
ArrayContent(a) == FileWith(Stringify(Json("array", a)))
ObjectContent(o) == FileWith(Stringify(Json("object", o)))

\* 66, 67: the default value each collection is loaded with
DefaultOf(kind) == IF kind = "requests" THEN EmptyArray ELSE EmptyObject

\* readJson(filePath, defaultValue) is called
Call(kind, content) ==
    [pc |-> "call", kind |-> kind, content |-> content, result |-> EmptyArray]

\* a collection is about to be loaded from a file of some content
LoadInit ==
    /\ \E kind \in {"requests", "accounts"} :
        \/ \E content \in PlainContents : load = Call(kind, content)
        \/ \E a \in SavedRequests : load = Call(kind, ArrayContent(a))
        \/ \E c \in [Targets -> 0..Len(SavedIgns)] :
                load = Call(kind, ObjectContent(SavedAccounts(c)))
    /\ adminChannelId = NULL
    /\ adminRoleIds = {}
    /\ pendingFile = <<>>
    /\ accountsFile = [t \in Targets |-> NoEntry]
    /\ pending = <<>>
    /\ accounts = [t \in Targets |-> NoEntry]
    /\ now = 1
    /\ messages = <<>>
    /\ handlers = [i \in Interactions |-> IdleHandler]
    /\ replies = [i \in Interactions |-> NULL]
    /\ writeFailed = FALSE
    /\ proc = "running"
    /\ ready = ReadyStart
    /\ gone = {}
    /\ unreadable = {}

\* 66 / 67: readJson returns
Load ==
    /\ load.pc = "call"
    /\ load' = [load EXCEPT !.pc = "returned",
                            !.result = readJson(load.content, DefaultOf(load.kind))]
    /\ UNCHANGED <<pending, accounts, pendingFile, accountsFile, adminChannelId,
                   adminRoleIds, now, messages, handlers, replies, writeFailed,
                   proc, ready, gone, unreadable>>

LoadSpec == LoadInit /\ [][Load]_vars

----------------------------------------------------------------------------

Next ==
    \/ \E i \in Interactions : Command_Start(i)
    \/ \E i \in Interactions : Command_FetchChannel(i)
    \/ \E i \in Interactions : Command_Send(i)
    \/ \E i \in Interactions : Button_Start(i)
    \/ \E i \in Interactions : Button_FetchMember(i)
    \/ \E i \in Interactions : Button_FetchChannel(i)
    \/ \E i \in Interactions : Button_FetchMsg(i)
    \/ \E i \in Interactions : Button_Edit(i)
    \/ \E i \in Interactions : Reply(i)

Spec == Init /\ [][Next]_vars

----------------------------------------------------------------------------
(* Vocabulary of the properties *)

\* handler i takes the step
Stepped(i) == handlers'[i] # handlers[i]
\* interaction i arrives in the step
Arrives(i) == handlers[i].pc = "idle" /\ handlers'[i].pc # "idle"
\* handler i applies its decision in the step (260-277, 260-293)
Applies(i) == handlers[i].pc = "b_fetchChannel" /\ Stepped(i)
\* who invoked interaction i
Invoker(i) == IF handlers[i].pc = "idle" THEN handlers'[i].user ELSE handlers[i].user
\* the acknowledgments of a resolution that succeeded
Success == {"Approved", "Rejected"}
AlreadyContents == {"AlreadyApproved", "AlreadyRejected"}
NoDuplicates(igns) ==
    \A a, b \in 1..Len(igns) : a # b => igns[a] # igns[b]

----------------------------------------------------------------------------
(* C1 - C10 *)

\* C1: of two button handlers for the same request, at most one is
\* acknowledged as having resolved it; it never happens that both apply a
\* decision.
C1_ExactlyOneResolves ==
    \A i, j \in Interactions :
        ( /\ i # j
          /\ handlers[i].kind = "button" /\ handlers[j].kind = "button"
          /\ handlers[i].req # 0 /\ handlers[i].req = handlers[j].req
          /\ replies[i] \in Success )
        => replies[j] \notin Success

\* C2: a request that is approved or rejected never changes again: its
\* status, resolvedBy and resolvedAt stay as the first resolution set them.
C2_TerminalIsFinal ==
    [][\A k \in 1..Len(pending) :
          pending[k].status # "pending"
          => /\ pending'[k].status = pending[k].status
             /\ pending'[k].resolvedBy = pending[k].resolvedBy
             /\ pending'[k].resolvedAt = pending[k].resolvedAt]_vars

\* the invoker of interaction i is not authorized: the member data of the
\* user does not grant it, or the handler computed hasAdmin as false
NotAuthorized(i) ==
    \/ ~HasAdmin(MemberOf(Invoker(i)))
    \/ handlers[i].pc \notin {"idle", "b_fetchMember"} /\ ~handlers[i].hasAdmin

\* C3 as claimed: a resolution attempt by an invoker who is not authorized
\* changes neither collection, and is answered with the permission refusal.
C3_UnauthorizedAlwaysRefused ==
    [][\A i \in Interactions :
          (Stepped(i) /\ handlers'[i].kind = "button" /\ NotAuthorized(i))
          => /\ UNCHANGED <<pending, accounts, pendingFile, accountsFile>>
             /\ handlers'[i].pc = "reply"
                => handlers'[i].content = "NoPermission"]_vars

\* C3 as amended: a resolution attempt by an invoker who is not authorized
\* changes neither collection and never gets to the decision; it is answered
\* not-found for an unknown id, with the prior outcome for a request that is
\* already resolved, and with the permission refusal for a request that is
\* pending when its status is checked.
C3_UnauthorizedChangesNothing ==
    [][\A i \in Interactions :
          (Stepped(i) /\ handlers'[i].kind = "button" /\ NotAuthorized(i))
          => LET h == handlers[i]
                 g == handlers'[i]
             IN  /\ UNCHANGED <<pending, accounts, pendingFile, accountsFile>>
                 /\ g.pc \in {"b_fetchMember", "reply", "done"}
                 /\ (Arrives(i) /\ g.pc = "reply")
                    => g.content =
                         IF g.req = 0 THEN "NotFound"
                         ELSE IF pending[g.req].status # "pending"
                         THEN AlreadyContent(pending[g.req].status)
                         ELSE "NoPermission"
                 /\ (Arrives(i) /\ g.pc = "b_fetchMember")
                    => g.req # 0 /\ pending[g.req].status = "pending"
                 /\ h.pc = "b_fetchMember"
                    => g.pc = "reply" /\ g.content = "NoPermission"
                 /\ h.pc = "reply" => replies'[i] = h.content]_vars

\* an unauthorized click on a pending request was refused, and the request
\* is still pending
C3_Witness ==
    \E i \in Interactions :
        /\ handlers[i].kind = "button"
        /\ replies[i] = "NoPermission"
        /\ pending[handlers[i].req].status = "pending"

\* C4: a button click on a request that is already approved or rejected is
\* answered with the stored status, and neither the request collection nor
\* the account collection (in memory or on disk) changes.
C4_AlreadyResolvedRefused ==
    [][\A i \in Interactions :
          (Stepped(i) /\ handlers'[i].kind = "button")
          => LET h == handlers[i]
                 g == handlers'[i]
             IN  /\ (Arrives(i) /\ g.req # 0 /\ pending[g.req].status # "pending")
                    => /\ g.pc = "reply"
                       /\ g.content = AlreadyContent(pending[g.req].status)
                       /\ UNCHANGED <<pending, accounts, pendingFile, accountsFile>>
                 /\ (h.pc = "reply" /\ h.content \in AlreadyContents)
                    => /\ replies'[i] = h.content
                       /\ UNCHANGED <<pending, accounts, pendingFile, accountsFile>>]_vars

\* a click was answered with the prior outcome of its request
C4_Witness ==
    \E i \in Interactions :
        /\ handlers[i].kind = "button"
        /\ handlers[i].pc = "done"
        /\ replies[i] \in AlreadyContents
        /\ replies[i] = AlreadyContent(pending[handlers[i].req].status)

\* C5: the step in which an authorized resolver approves a request with
\* target T and ign g leaves the request approved with resolvedBy the
\* resolver, an entry for T in the account collection, g among its igns, and
\* every ign the entry had before still there.
C5_ApproveLinks ==
    [][\A i \in Interactions :
          (Applies(i) /\ handlers[i].action = "accept")
          => LET k == handlers[i].req
                 T == pending[k].targetId
                 g == pending[k].ign
             IN  /\ pending'[k].status = "approved"
                 /\ pending'[k].resolvedBy = handlers[i].user
                 /\ accounts'[T] # NoEntry
                 /\ accounts'[T].id = T
                 /\ Includes(accounts'[T].igns, g)
                 /\ \A n \in 1..Len(accounts[T].igns) :
                        Includes(accounts'[T].igns, accounts[T].igns[n])]_vars

\* a request was approved for an account that had another ign before
C5_Witness ==
    \E k \in 1..Len(pending) :
        LET T == pending[k].targetId
        IN  /\ pending[k].status = "approved"
            /\ Len(accounts[T].igns) = 2
            /\ accounts[T].igns[2] = pending[k].ign

\* C6: no igns list of the account collection, in memory or on disk, holds
\* the same name twice.
C6_NoDuplicateIgns ==
    \A T \in Targets :
        NoDuplicates(accounts[T].igns) /\ NoDuplicates(accountsFile[T].igns)

\* two distinct requests for the same name and the same account are both
\* approved
C6_Witness ==
    \E j, k \in 1..Len(pending) :
        /\ j # k
        /\ pending[j].ign = pending[k].ign
        /\ pending[j].targetId = pending[k].targetId
        /\ pending[j].status = "approved" /\ pending[k].status = "approved"
        /\ Includes(accounts[pending[j].targetId].igns, pending[j].ign)

\* C7 as claimed: after the approval of a request for g targeting A, g is in
\* the igns of A and in the igns of no other account.
C7_LinkedToNoOther ==
    [][\A i \in Interactions :
          (Applies(i) /\ handlers[i].action = "accept")
          => LET k == handlers[i].req
                 A == pending[k].targetId
                 g == pending[k].ign
             IN  /\ Includes(accounts'[A].igns, g)
                 /\ \A B \in Targets \ {A} : ~Includes(accounts'[B].igns, g)]_vars

\* C7 as amended: after the approval of a request for g targeting A, g is in
\* the igns of A, and g is in the igns of another account only if it was
\* there before the approval.
C7_LinkedToNoNewOther ==
    [][\A i \in Interactions :
          (Applies(i) /\ handlers[i].action = "accept")
          => LET k == handlers[i].req
                 A == pending[k].targetId
                 g == pending[k].ign
             IN  /\ Includes(accounts'[A].igns, g)
                 /\ \A B \in Targets \ {A} :
                        Includes(accounts'[B].igns, g)
                        => Includes(accounts[B].igns, g)]_vars

\* a name was approved for an account while another account holds it too
C7_Witness ==
    \E k \in 1..Len(pending) :
        LET A == pending[k].targetId
            g == pending[k].ign
        IN  /\ pending[k].status = "approved"
            /\ Includes(accounts[A].igns, g)
            /\ \E B \in Targets \ {A} : Includes(accounts[B].igns, g)

\* C8: the account collection changes only in a step that takes a request
\* from pending to approved, and no entry and no ign is ever removed.
C8_AccountsOnlyOnApproval ==
    [][/\ accounts' # accounts
          => \E k \in 1..Len(pending) :
                pending[k].status = "pending" /\ pending'[k].status = "approved"
       /\ \A T \in Targets :
            /\ accounts[T] # NoEntry => accounts'[T] # NoEntry
            /\ \A n \in 1..Len(accounts[T].igns) :
                    Includes(accounts'[T].igns, accounts[T].igns[n])]_vars

\* C9: the step in which an authorized resolver rejects a request leaves it
\* rejected with resolvedBy and resolvedAt set, and leaves the account
\* collection, in memory and on disk, as it was.
C9_RejectLeavesAccounts ==
    [][\A i \in Interactions :
          (Applies(i) /\ handlers[i].action = "reject")
          => LET k == handlers[i].req
             IN  /\ pending'[k].status = "rejected"
                 /\ pending'[k].resolvedBy = handlers[i].user
                 /\ pending'[k].resolvedAt # NoTime
                 /\ accounts' = accounts
                 /\ accountsFile' = accountsFile]_vars

\* a pending request was rejected and its target has no account entry
C9_Witness ==
    \E k \in 1..Len(pending) :
        /\ pending[k].status = "rejected"
        /\ pending[k].resolvedBy \in Resolvers
        /\ accounts[pending[k].targetId] = NoEntry
        /\ accountsFile[pending[k].targetId] = NoEntry

\* C10: every stored request, in memory and on disk, has a non-empty ign: a
\* submission whose ign is empty or whitespace adds no record.
C10_NoBlankIgn ==
    /\ \A k \in 1..Len(pending) : pending[k].ign # <<>>
    /\ \A k \in 1..Len(pendingFile) : pendingFile[k].ign # <<>>

----------------------------------------------------------------------------
(* C11 - C20 *)

\* C11: no two records of the request collection have the same id, also
\* when two submissions read the same clock value.
C11_UniqueIds ==
    \A j, k \in 1..Len(pending) : j # k => pending[j].id # pending[k].id

\* handler i is about to acknowledge a submission or a resolution
Acknowledging(i) ==
    /\ handlers[i].pc = "reply"
    /\ \/ handlers[i].kind = "command"
       \/ handlers[i].kind = "button" /\ handlers[i].content \in Success

\* C12 as claimed: whenever an acknowledgment of a submission or of a
\* resolution is sent, each file holds the collection that is in memory.
C12_PersistedAtReply ==
    \A i \in Interactions :
        Acknowledging(i) => (pendingFile = pending /\ accountsFile = accounts)

\* C12 as amended: a mutation and the rewrite of its file are one step, so
\* at every point where a handler yields, and so whenever an acknowledgment
\* is sent, each file holds the collection that is in memory, unless a write
\* has failed (and was logged) since the start.
C12_PersistedUnlessWriteFailed ==
    writeFailed \/ (pendingFile = pending /\ accountsFile = accounts)

\* an approval is being acknowledged, no write has failed, and the link is
\* in the account collection
C12_Witness ==
    \E i \in Interactions :
        /\ Acknowledging(i)
        /\ handlers[i].content = "Approved"
        /\ ~writeFailed
        /\ accounts[pending[handlers[i].req].targetId] # NoEntry

\* what the submitter is told when the request could not be rendered
RenderFailures == {"NotConfigured", "ChannelNotFound", "Error"}
\* what handler i tells, or has told, its invoker
Told(i) == IF handlers[i].pc = "reply" THEN handlers[i].content ELSE replies[i]

\* C13: a submission whose request could not be rendered (destination not
\* configured, not found or not a text channel, or the send failed) is
\* answered with a failure, and exactly such submissions are; its request
\* is in the request collection without a message id, is still pending (no
\* artifact carries its id; a second record with the same id, C11, is what
\* could get it resolved), and is in the file as it is in memory unless a
\* write failed.  Without a configured destination the process runs and
\* answers every submission that way.
C13_RenderFailureReported ==
    \A i \in Interactions :
        (handlers[i].kind = "command" /\ handlers[i].pc \in {"reply", "done"})
        => LET k == handlers[i].req
           IN  /\ k \in 1..Len(pending)
               /\ Told(i) \in RenderFailures \cup {"Submitted"}
               /\ Told(i) \in RenderFailures <=> pending[k].messageId = NoMessage
               /\ adminChannelId = NULL => Told(i) = "NotConfigured"
               /\ Told(i) \in RenderFailures
                  => /\ C11_UniqueIds => pending[k].status = "pending"
                     /\ writeFailed
                        \/ (k <= Len(pendingFile) /\ pendingFile[k] = pending[k])

\* the submitter was told of a send that failed, and the request is in
\* memory and in the file, pending and without a message id
C13_Witness ==
    \E i \in Interactions :
        /\ handlers[i].kind = "command"
        /\ replies[i] = "Error"
        /\ ~writeFailed
        /\ pendingFile[handlers[i].req].status = "pending"
        /\ pendingFile[handlers[i].req].messageId = NoMessage
        /\ pending[handlers[i].req] = pendingFile[handlers[i].req]

\* request k was in the store when the process started
LeftByEarlierRun(k) == pending[k].createdAt = 0
\* the message id of request k names a message that is in the channel
HasLiveArtifact(k) ==
    pending[k].messageId # NoMessage /\ pending[k].messageId \notin gone

\* C14: when the ClientReady handler that got the text channel has
\* returned, every pending request of the store has a message that is in
\* the channel, with its id in the file (unless a write failed); the only
\* request excused is the one whose own send failed.
C14_EveryLackingRerendered ==
    (ready.pc = "done" /\ ready.channel)
    => \A k \in 1..Len(pending) :
          (LeftByEarlierRun(k) /\ pending[k].status = "pending")
          => \/ /\ HasLiveArtifact(k)
                /\ writeFailed \/ pendingFile[k].messageId = pending[k].messageId
             \/ ready.failed /\ ready.todo # <<>> /\ Head(ready.todo) = k

\* the messages in the channel that carry enabled buttons for request k
LiveArtifacts(k) ==
    {m \in 1..Len(messages) :
        /\ m \notin gone
        /\ ~messages[m].disabled
        /\ messages[m].embed.reqId = pending[k].id}

\* C15: a pending request never has two messages with enabled buttons in
\* the channel.
C15_OneLiveArtifact ==
    \A k \in 1..Len(pending) :
        pending[k].status = "pending" => Cardinality(LiveArtifacts(k)) <= 1

\* the ClientReady handler takes the step
ReadySteps == ready' # ready

\* C16: the restore loop sends a message only while its `message` holds
\* nothing, so never for a request whose message the fetch returned; the
\* step in which the fetch returns the message changes neither the
\* channel nor the request collection nor its file; and the handler never
\* again visits that request, changes its record or sends a message with
\* its id.
C16_LiveNotRerendered ==
    /\ [](ready.pc = "r_send" => ready.message = NoMessage)
    /\ [](\A k \in ready.kept :
            /\ k \notin ready.restored
            /\ \A n \in 1..Len(ready.todo) : ready.todo[n] # k)
    /\ [][ReadySteps
          => \A k \in 1..Len(pending) :
                /\ (k \in ready'.kept /\ k \notin ready.kept)
                   => /\ ready.pc = "r_fetchMsg" /\ Head(ready.todo) = k
                      /\ HasLiveArtifact(k)
                      /\ UNCHANGED <<messages, pending, pendingFile>>
                /\ k \in ready.kept
                   => /\ pending'[k] = pending[k]
                      /\ Len(messages') > Len(messages)
                         => messages'[Len(messages')].embed.reqId # pending[k].id]_vars

\* the handler has returned; it found the message of one pending request
\* in the channel and left it the only one, and restored another request
C16_Witness ==
    /\ ready.pc = "done"
    /\ ready.restored # {}
    /\ \E k \in ready.kept :
            /\ pending[k].status = "pending"
            /\ HasLiveArtifact(k)
            /\ pendingFile[k] = pending[k]
            /\ LiveArtifacts(k) = {pending[k].messageId}

\* handler i has applied its decision and not yet returned
Decided(i) ==
    /\ handlers[i].kind = "button"
    /\ \/ handlers[i].pc \in {"b_fetchMsg", "b_edit"}
       \/ handlers[i].pc = "reply" /\ handlers[i].hasAdmin

\* C17: whatever becomes of the update of the artifact (no channel, no
\* message, an edit that throws), a handler that has applied its decision
\* ends with the success acknowledgment of that decision and with nothing
\* else, and the decision stands: the request is approved or rejected with
\* its resolver, for an approval the name is among the igns of the target,
\* and the files hold what memory holds unless a write failed.
C17_ResolutionStands ==
    \A i \in Interactions :
        /\ Decided(i)
           => LET h == handlers[i]
                  req == pending[h.req]
              IN  /\ req.status \in {"approved", "rejected"}
                  /\ req.resolvedBy \in Resolvers
                  /\ h.action = "accept"
                     => Includes(accounts[TargetId(req)].igns, req.ign)
                  /\ writeFailed
                     \/ (pendingFile[h.req] = req /\ accountsFile = accounts)
                  /\ h.pc = "reply"
                     => h.content = IF h.action = "accept" THEN "Approved"
                                                           ELSE "Rejected"
        /\ (handlers[i].kind = "button" /\ handlers[i].pc = "done")
           => /\ replies[i] \in Success \cup AlreadyContents
                                \cup {"NotFound", "NoPermission"}
              /\ replies[i] \in Success
                 => pending[handlers[i].req].status \in {"approved", "rejected"}

\* an approval was acknowledged although the message of the request still
\* shows it pending with its buttons enabled; the request and the link are
\* in memory and in the files
C17_Witness ==
    \E i \in Interactions :
        LET req == pending[handlers[i].req]
        IN  /\ handlers[i].kind = "button"
            /\ handlers[i].pc = "done"
            /\ replies[i] = "Approved"
            /\ req.status = "approved"
            /\ ~messages[req.messageId].disabled
            /\ messages[req.messageId].embed.status = "pending"
            /\ Includes(accountsFile[req.targetId].igns, req.ign)
            /\ pendingFile = pending /\ accountsFile = accounts

\* C18 as claimed: a request that is in the file as last written stays in
\* the file, and is in the memory of the process whenever there is one, also
\* after a start that finds the file unreadable.
C18_NeverRemoved ==
    [][\A k \in 1..Len(pendingFile) :
          /\ k <= Len(pendingFile') /\ pendingFile'[k].id = pendingFile[k].id
          /\ proc' # "exited"
             => (k <= Len(pending') /\ pending'[k].id = pendingFile[k].id)]_vars

\* C18 as amended: the same, for the steps taken while the bytes of the
\* file decode.  (A start that finds them undecodable begins with an empty
\* collection, and the next save replaces the file.)
C18_NeverRemovedWhileReadable ==
    [][("pending" \notin unreadable)
       => \A k \in 1..Len(pendingFile) :
            /\ k <= Len(pendingFile') /\ pendingFile'[k].id = pendingFile[k].id
            /\ proc' # "exited"
               => (k <= Len(pending') /\ pending'[k].id = pendingFile[k].id)]_vars

\* the process was stopped with a handler in flight and started again; its
\* collection is the file's and holds an approved request and one more
C18_Witness ==
    /\ proc = "running"
    /\ \E i \in Interactions : handlers[i].pc = "cut"
    /\ pending = pendingFile
    /\ Len(pending) >= 2
    /\ \E k \in 1..Len(pending) : pending[k].status = "approved"

\* C19: what readJson returns is a collection of the kind asked for (an
\* array for the requests, an object for the accounts), and it is either
\* the collection whose JSON text the file holds or the empty one.
C19_LoadYieldsCollection ==
    load.pc = "returned"
    => /\ load.result.type = DefaultOf(load.kind).type
       /\ \/ load.result = DefaultOf(load.kind)
          \/ load.content = FileWith(Stringify(load.result))

\* C20: the process never exits while a handler is at an await: no handler
\* is cut off.
C20_NoHandlerCutOff ==
    \A i \in Interactions : handlers[i].pc # "cut"

----------------------------------------------------------------------------
(* C21 - C26 *)

\* who may resolve: with admin roles configured, a member who holds one of
\* them; with none configured, a member who is an administrator or may
\* manage the guild; nobody whose member data is not available
Authorized(member) ==
    /\ member.present
    /\ IF adminRoleIds # {}
       THEN \E r \in adminRoleIds : r \in member.roles
       ELSE \E p \in {"Administrator", "ManageGuild"} : p \in member.permissions

\* handler i checks the authorization of its invoker in the step (242-258)
ChecksAdmin(i) ==
    \/ /\ Arrives(i)
       /\ handlers'[i].kind = "button"
       /\ handlers'[i].req # 0
       /\ pending[handlers'[i].req].status = "pending"
       /\ handlers'[i].pc # "b_fetchMember"
    \/ handlers[i].pc = "b_fetchMember" /\ Stepped(i)

HasResolution(req) == req.resolvedBy # NULL /\ req.resolvedAt # NoTime
HasNoResolution(req) == req.resolvedBy = NULL /\ req.resolvedAt = NoTime

\* C22: wherever the handlers yield, a request, in memory and in the file,
\* has resolvedBy and resolvedAt set if it is approved or rejected, and has
\* neither if it is pending.
C22_ResolutionFieldsMatchStatus ==
    /\ \A k \in 1..Len(pending) :
        /\ pending[k].status \in {"pending", "approved", "rejected"}
        /\ IF pending[k].status = "pending"
           THEN HasNoResolution(pending[k])
           ELSE HasResolution(pending[k]) /\ pending[k].resolvedBy \in Resolvers
    /\ \A k \in 1..Len(pendingFile) :
        IF pendingFile[k].status = "pending"
        THEN HasNoResolution(pendingFile[k])
        ELSE HasResolution(pendingFile[k])

\* one request was rejected and carries its resolver and time, in memory
\* and in the file, while another is still pending and carries neither
C22_Witness ==
    \E j, k \in 1..Len(pending) :
        /\ pending[j].status = "rejected"
        /\ HasResolution(pending[j])
        /\ pendingFile[j] = pending[j]
        /\ pending[k].status = "pending"
        /\ HasNoResolution(pending[k])

\* name g is among the igns of account A in acc, and some request of reqs
\* with target A and ign g is approved
Backed(reqs, A, g) ==
    \E k \in 1..Len(reqs) :
        /\ reqs[k].targetId = A
        /\ reqs[k].ign = g
        /\ reqs[k].status = "approved"
LinksBacked(reqs, acc) ==
    \A A \in Targets :
        \A n \in 1..Len(acc[A].igns) : Backed(reqs, A, acc[A].igns[n])

\* C23: every name among the igns of an account is backed by an approved
\* request for that account and that name, in memory wherever the handlers
\* yield, and in the two files as they are on disk.
C23_LinkedNamesBacked ==
    /\ LinksBacked(pending, accounts)
    /\ LinksBacked(pendingFile, accountsFile)

\* no button handler for request k is under way
ResolutionOver(k) ==
    \A i \in Interactions :
        (handlers[i].kind = "button" /\ handlers[i].req = k)
        => handlers[i].pc = "done"

\* C24: when the handlers that resolved a request have all returned and the
\* message of the request was updated (its buttons are disabled), the
\* message shows the status and the resolver that the stored request has.
C24_ArtifactShowsOutcome ==
    \A k \in 1..Len(pending) :
        LET req == pending[k]
        IN  ( /\ ResolutionOver(k)
              /\ req.status \in {"approved", "rejected"}
              /\ req.messageId # NoMessage
              /\ messages[req.messageId].disabled )
            => /\ messages[req.messageId].embed.reqId = req.id
               /\ messages[req.messageId].embed.status = req.status
               /\ messages[req.messageId].embed.decidedBy = req.resolvedBy

\* the restore loop calls adminChannel.send for request k in the step (157)
CallsSend(k) ==
    /\ ReadySteps
    /\ ready'.pc = "r_send"
    /\ Head(ready'.todo) = k
    /\ ready.pc = "r_send" => ready'.todo # ready.todo

\* C25: the restore loop calls send, with the enabled buttons, only for a
\* request that is pending at that moment.
C25_NoRenderOfResolved ==
    [][\A k \in 1..Len(pending) :
          CallsSend(k) => pending'[k].status = "pending"]_vars

\* C26: a click is answered not-found when its request id is unknown and
\* with the prior outcome when its request is approved or rejected, whoever
\* clicks and before any member data is read; only a click whose request is
\* pending when its status is checked (229) gets to the permission check,
\* right away or after the member fetch, so only such a click is answered
\* with the permission refusal.
C26_GuardsInOrder ==
    /\ [](\A i \in Interactions :
            (handlers[i].pc \in {"b_fetchMember", "b_fetchChannel"}
             \/ (handlers[i].pc = "reply" /\ handlers[i].content = "NoPermission"))
            => handlers[i].req \in 1..Len(pending))
    /\ [][\A i \in Interactions :
            (Arrives(i) /\ handlers'[i].kind = "button")
            => LET g == handlers'[i]
               IN  /\ UNCHANGED <<pending, accounts, pendingFile, accountsFile>>
                   /\ g.req # 0 => pending[g.req].id \in ClickableIds
                   /\ g.req = 0
                      => g.pc = "reply" /\ g.content = "NotFound"
                   /\ (g.req # 0 /\ pending[g.req].status # "pending")
                      => /\ g.pc = "reply"
                         /\ g.content = AlreadyContent(pending[g.req].status)
                         /\ g.member = NoMember
                   /\ (g.req # 0 /\ pending[g.req].status = "pending")
                      => \/ g.pc = "b_fetchMember"
                         \/ g.pc = "b_fetchChannel"
                         \/ g.pc = "reply" /\ g.content = "NoPermission"]_vars

\* a request was resolved, and a click on it by one who is not authorized
\* is being answered with its outcome, not with the refusal
C26_Witness ==
    \E i, j \in Interactions :
        /\ handlers[i].pc = "reply"
        /\ handlers[i].content \in AlreadyContents
        /\ ~Authorized(MemberOf(handlers[i].user))
        /\ replies[j] \in Success
        /\ handlers[j].req = handlers[i].req

====
